---- MODULE Spec2Model ----
(***************************************************************************)
(* A model of SceneManager (7-1 Final Project/Source/Source/               *)
(* SceneManager.cpp): the texture registry and the OpenGL texture state    *)
(* it drives, the material registry, the transform builder, the shading    *)
(* state setters and the PrepareScene / RenderScene orchestration.         *)
(*                                                                         *)
(* Every method is a pure operator from the object's state (a record, see  *)
(* Self) to its state after the call, written statement by statement; the  *)
(* actions call these operators, so that a method that calls another       *)
(* (LoadSceneTextures, SetShaderTexture, RenderScene) is one action that   *)
(* includes its callees.                                                   *)
(***************************************************************************)
EXTENDS Integers, Sequences, FiniteSets, TLC

VARIABLES
    m_pShaderManager,   \* the shader dependency: NULL or the shader manager
    m_loadedTextures,   \* int: number of registered textures
    m_textureIDs,       \* TEXTURE_INFO array: index -> [ID, tag]
    m_objectMaterials,  \* std::vector<OBJECT_MATERIAL>
    m_basicMeshes,      \* the meshes ShapeMeshes has loaded
    gl,                 \* the OpenGL context's texture state
    shader,             \* the uniforms of the active shader program
    pc,                 \* where the caller is
    ret,                \* the last call: its name, arguments and result
    hist,               \* history: the CreateGLTexture attempts, in order,
                        \* each [tag, image, ok]
    drawLog             \* history: the draws of the last RenderScene

vars == << m_pShaderManager, m_loadedTextures, m_textureIDs, m_objectMaterials,
           m_basicMeshes, gl, shader, pc, ret, hist, drawLog >>

----------------------------------------------------------------------------
(* Bounds of the model *)

\* CreateGLTexture calls a test sequence issues
MaxLoads == 3
\* DefineObjectMaterials calls a test sequence issues
MaxDefines == 2

----------------------------------------------------------------------------
(* Program constants *)

\* "There are up to 16 slots" (texture units)
NumTextureUnits == 16
\* the sentinel both texture lookups start from
NotFound == -1
\* m_loadedTextures when the object is constructed.  The member's declaration
\* (SceneManager.h) is not among the sources and the constructor does not
\* assign it; the specification numbers slots from 0.
InitialLoadedTextures == 0
\* the length of the array m_textureIDs, declared in SceneManager.h like
\* m_loadedTextures; the specification has 16 texture slots
TextureArraySize == 16
\* what a write past the end of m_textureIDs does in a run: it lands in
\* memory nothing else uses, or the program crashes
OutOfBounds == {"harmless", "crash"}

NULL == "NULL"
ShaderMgr == "ShaderManager"

\* tags and images a test sequence draws from
Tags == {"a", "b", "c"}
\* stbi_load's result: 0 is the NULL pointer (the file could not be decoded),
\* otherwise the image's colorChannels (1..4 with req_comp = 0)
NullImage == 0
Images == {NullImage} \cup (1..4)

----------------------------------------------------------------------------
(* The object's state as one record, and its installation as the next state *)

Self ==
    [ m_pShaderManager  |-> m_pShaderManager,
      m_loadedTextures  |-> m_loadedTextures,
      m_textureIDs      |-> m_textureIDs,
      m_objectMaterials |-> m_objectMaterials,
      m_basicMeshes     |-> m_basicMeshes,
      gl                |-> gl,
      shader            |-> shader,
      crashed           |-> pc = "crashed",
      oob               |-> "harmless",
      drawLog           |-> drawLog ]

\* the object in each of the runs that differ in what an out-of-bounds write
\* does
Selves == { [Self EXCEPT !.oob = o] : o \in OutOfBounds }

\* (the actions bind s by \E s \in {...}, which evaluates the call once)
Install(s) ==
    /\ m_pShaderManager'  = s.m_pShaderManager
    /\ m_loadedTextures'  = s.m_loadedTextures
    /\ m_textureIDs'      = s.m_textureIDs
    /\ m_objectMaterials' = s.m_objectMaterials
    /\ m_basicMeshes'     = s.m_basicMeshes
    /\ gl'                = s.gl
    /\ shader'            = s.shader
    /\ drawLog'           = s.drawLog

\* a C++ array write a[i] = e
Store(a, i, e) == [j \in (DOMAIN a) \cup {i} |-> IF j = i THEN e ELSE a[j]]

----------------------------------------------------------------------------
(* OpenGL texture state: the active unit, each unit's GL_TEXTURE_2D binding, *)
(* the names glGenTextures has handed out, and the texture objects           *)

\* a texture object as a first bind creates it
NewTexture ==
    [ image |-> "none", mipmap |-> FALSE,
      wrapS |-> "GL_REPEAT", wrapT |-> "GL_REPEAT",
      minFilter |-> "GL_NEAREST_MIPMAP_LINEAR", magFilter |-> "GL_LINEAR" ]

InitGL ==
    [ activeTexture |-> 0,
      bound         |-> [u \in 0..(NumTextureUnits - 1) |-> 0],
      nextName      |-> 1,
      textures      |-> (0 :> NewTexture),
      deleted       |-> {} ]

\* glGenTextures(1, &id): id is g.nextName, a name not in use
glGenTextures(g) == [g EXCEPT !.nextName = @ + 1]

\* glActiveTexture(GL_TEXTURE0 + unit); an invalid unit is a GL error and
\* changes nothing
glActiveTexture(g, unit) ==
    IF unit \in 0..(NumTextureUnits - 1)
    THEN [g EXCEPT !.activeTexture = unit]
    ELSE g

\* glBindTexture(GL_TEXTURE_2D, id)
glBindTexture(g, id) ==
    [g EXCEPT !.bound[g.activeTexture] = id,
              !.textures = IF id \in DOMAIN @ THEN @ ELSE @ @@ (id :> NewTexture)]

\* glTexParameteri(GL_TEXTURE_2D, pname, value): the texture bound on the
\* active unit
glTexParameteri(g, pname, value) ==
    LET t == g.bound[g.activeTexture] IN
    CASE pname = "GL_TEXTURE_WRAP_S"     -> [g EXCEPT !.textures[t].wrapS = value]
      [] pname = "GL_TEXTURE_WRAP_T"     -> [g EXCEPT !.textures[t].wrapT = value]
      [] pname = "GL_TEXTURE_MIN_FILTER" -> [g EXCEPT !.textures[t].minFilter = value]
      [] pname = "GL_TEXTURE_MAG_FILTER" -> [g EXCEPT !.textures[t].magFilter = value]

\* glTexImage2D(GL_TEXTURE_2D, 0, internalFormat, ...)
glTexImage2D(g, internalFormat) ==
    [g EXCEPT !.textures[g.bound[g.activeTexture]].image = internalFormat]

\* glGenerateMipmap(GL_TEXTURE_2D)
glGenerateMipmap(g) ==
    [g EXCEPT !.textures[g.bound[g.activeTexture]].mipmap = TRUE]

----------------------------------------------------------------------------
(* Texture registry *)

\* lines 86-91: wrapping and filtering parameters of the new texture
CreateGLTextureParams(g) ==
    glTexParameteri(
      glTexParameteri(
        glTexParameteri(
          glTexParameteri(g, "GL_TEXTURE_WRAP_S", "GL_REPEAT"),
          "GL_TEXTURE_WRAP_T", "GL_REPEAT"),
        "GL_TEXTURE_MIN_FILTER", "GL_LINEAR"),
      "GL_TEXTURE_MAG_FILTER", "GL_LINEAR")

\* lines 105-117: mipmaps, unbind, register under the tag, count up.  With
\* the array full the two writes at 113-114 go past its end.
CreateGLTextureRegister(s, g, textureID, tag) ==
    IF s.m_loadedTextures >= TextureArraySize /\ s.oob = "crash"
    THEN [ s EXCEPT
             !.gl = glBindTexture(glGenerateMipmap(g), 0),
             !.crashed = TRUE ]
    ELSE [ s EXCEPT
             !.gl = glBindTexture(glGenerateMipmap(g), 0),
             !.m_textureIDs = Store(s.m_textureIDs, s.m_loadedTextures,
                                    [ID |-> textureID, tag |-> tag]),
             !.m_loadedTextures = s.m_loadedTextures + 1 ]

\* the call's result after the registration: true, unless it never returns
CreateGLTextureReturn(s) == [s |-> s, ret |-> ~s.crashed]

\* a plausible repair: a full registry rejects the load
CreateGLTexture_EnforcesMaximum(s, tag, image) ==
    IF image \in {3, 4} /\ s.m_loadedTextures < TextureArraySize
    THEN LET textureID == s.gl.nextName
             g == CreateGLTextureParams(
                    glBindTexture(glGenTextures(s.gl), textureID))
         IN  CreateGLTextureReturn(
               CreateGLTextureRegister(
                 s, glTexImage2D(g, IF image = 3 THEN "GL_RGB8" ELSE "GL_RGBA8"),
                 textureID, tag))
    ELSE [ s |-> s, ret |-> FALSE ]

\* a plausible slip: no test of colorChannels, every decoded image is
\* uploaded as RGB and registered
CreateGLTexture_RegistersRejected(s, tag, image) ==
    IF image # NullImage
    THEN LET textureID == s.gl.nextName
             g == CreateGLTextureParams(
                    glBindTexture(glGenTextures(s.gl), textureID))
         IN  [ s   |-> CreateGLTextureRegister(
                         s, glTexImage2D(g, "GL_RGB8"), textureID, tag),
               ret |-> TRUE ]
    ELSE [ s |-> s, ret |-> FALSE ]

\* bool CreateGLTexture(filename, tag); image is what stbi_load returns for
\* the file.  The result is [s |-> the state after, ret |-> the value returned].
CreateGLTexture(s, tag, image) ==
    IF image # NullImage
    THEN LET textureID == s.gl.nextName
             g == CreateGLTextureParams(
                    glBindTexture(glGenTextures(s.gl), textureID))
         IN  IF image = 3
             THEN CreateGLTextureReturn(
                    CreateGLTextureRegister(
                      s, glTexImage2D(g, "GL_RGB8"), textureID, tag))
             ELSE IF image = 4
             THEN CreateGLTextureReturn(
                    CreateGLTextureRegister(
                      s, glTexImage2D(g, "GL_RGBA8"), textureID, tag))
             ELSE \* "Not implemented to handle image with N channels": the
                  \* texture stays generated and bound, the image is not freed
                  [ s |-> [s EXCEPT !.gl = g], ret |-> FALSE ]
    ELSE \* "Could not load image"
         [ s |-> s, ret |-> FALSE ]

RECURSIVE BindGLTexturesFrom(_, _)
\* the loop of BindGLTextures from index i on
BindGLTexturesFrom(s, i) ==
    IF i < s.m_loadedTextures
    THEN BindGLTexturesFrom(
           [s EXCEPT !.gl = glBindTexture(glActiveTexture(s.gl, i),
                                          s.m_textureIDs[i].ID)],
           i + 1)
    ELSE s

RECURSIVE BindGLTexturesOnActiveUnitFrom(_, _)
\* the loop without its glActiveTexture call
BindGLTexturesOnActiveUnitFrom(s, i) ==
    IF i < s.m_loadedTextures
    THEN BindGLTexturesOnActiveUnitFrom(
           [s EXCEPT !.gl = glBindTexture(s.gl, s.m_textureIDs[i].ID)], i + 1)
    ELSE s

\* a plausible slip: glActiveTexture is left out, every texture is bound on
\* the unit that happens to be active
BindGLTextures_NoActiveTexture(s) == BindGLTexturesOnActiveUnitFrom(s, 0)

\* void BindGLTextures()
BindGLTextures(s) == BindGLTexturesFrom(s, 0)

RECURSIVE DestroyGLTexturesFrom(_, _)
\* the for loop of DestroyGLTextures with the index at i:
\* glGenTextures(1, &m_textureIDs[i].ID) stores a new name in the entry
DestroyGLTexturesFrom(s, i) ==
    IF i < s.m_loadedTextures
    THEN DestroyGLTexturesFrom(
           [s EXCEPT !.m_textureIDs[i].ID = s.gl.nextName,
                     !.gl = glGenTextures(s.gl)],
           i + 1)
    ELSE s

RECURSIVE DeleteGLTexturesFrom(_, _)
\* the loop with glDeleteTextures(1, &m_textureIDs[i].ID): the name is
\* deleted and every unit it is bound on reverts to texture 0
DeleteGLTexturesFrom(s, i) ==
    IF i < s.m_loadedTextures
    THEN DeleteGLTexturesFrom(
           [s EXCEPT !.gl.deleted = @ \cup {s.m_textureIDs[i].ID},
                     !.gl.bound = [u \in DOMAIN @ |->
                                     IF @[u] = s.m_textureIDs[i].ID THEN 0 ELSE @[u]]],
           i + 1)
    ELSE s

\* what the routine is documented to do: free the textures
DestroyGLTextures_Deletes(s) == DeleteGLTexturesFrom(s, 0)

\* void DestroyGLTextures()
DestroyGLTextures(s) == DestroyGLTexturesFrom(s, 0)

RECURSIVE FindTextureIDFrom(_, _, _)
\* the while loop of FindTextureID with the local index at i and bFound false
FindTextureIDFrom(s, tag, index) ==
    IF index < s.m_loadedTextures
    THEN IF s.m_textureIDs[index].tag = tag
         THEN s.m_textureIDs[index].ID
         ELSE FindTextureIDFrom(s, tag, index + 1)
    ELSE NotFound

\* a plausible slip: textureID starts at 0 instead of -1
FindTextureID_ZeroDefault(s, tag) ==
    LET textureID == FindTextureIDFrom(s, tag, 0)
    IN  IF textureID = NotFound THEN 0 ELSE textureID

RECURSIVE FindTextureIDLastFrom(_, _, _, _)
\* the loop without bFound in its condition: a later match overwrites textureID
FindTextureIDLastFrom(s, tag, index, textureID) ==
    IF index < s.m_loadedTextures
    THEN FindTextureIDLastFrom(
           s, tag, index + 1,
           IF s.m_textureIDs[index].tag = tag
           THEN s.m_textureIDs[index].ID
           ELSE textureID)
    ELSE textureID

\* a plausible slip: the scan does not stop at the first match
FindTextureID_LastMatch(s, tag) == FindTextureIDLastFrom(s, tag, 0, NotFound)

\* int FindTextureID(tag)
FindTextureID(s, tag) == FindTextureIDFrom(s, tag, 0)

RECURSIVE FindTextureSlotFrom(_, _, _)
\* the while loop of FindTextureSlot with the local index at i and bFound false
FindTextureSlotFrom(s, tag, index) ==
    IF index < s.m_loadedTextures
    THEN IF s.m_textureIDs[index].tag = tag
         THEN index
         ELSE FindTextureSlotFrom(s, tag, index + 1)
    ELSE NotFound

\* a plausible slip: the body copied from FindTextureID returns the handle
FindTextureSlot_ReturnsID(s, tag) == FindTextureIDFrom(s, tag, 0)

\* int FindTextureSlot(tag)
FindTextureSlot(s, tag) == FindTextureSlotFrom(s, tag, 0)

----------------------------------------------------------------------------
(* Material registry *)

\* colours in tenths, as <<r, g, b>>
glassMaterial ==
    [ tag |-> "glass", diffuseColor |-> <<6, 7, 8>>,
      specularColor |-> <<9, 9, 10>>, shininess |-> 85 ]
metalMaterial ==
    [ tag |-> "metal", diffuseColor |-> <<5, 5, 5>>,
      specularColor |-> <<8, 8, 8>>, shininess |-> 50 ]
woodMaterial ==
    [ tag |-> "wood", diffuseColor |-> <<6, 4, 2>>,
      specularColor |-> <<2, 1, 1>>, shininess |-> 10 ]

\* void DefineObjectMaterials(): three push_back calls
DefineObjectMaterials(s) ==
    [s EXCEPT !.m_objectMaterials =
        Append(Append(Append(@, glassMaterial), metalMaterial), woodMaterial)]

RECURSIVE FindMaterialFrom(_, _, _, _)
\* the while loop of FindMaterial with the local index at i and bFound false;
\* m_objectMaterials[index] of the code is element index + 1 of the sequence.
\* The result is the caller's material after the loop and the index the loop
\* stopped at.
FindMaterialFrom(s, tag, material, index) ==
    IF index < Len(s.m_objectMaterials)
    THEN IF s.m_objectMaterials[index + 1].tag = tag
         THEN [ material |->
                  [material EXCEPT
                     !.diffuseColor  = s.m_objectMaterials[index + 1].diffuseColor,
                     !.specularColor = s.m_objectMaterials[index + 1].specularColor,
                     !.shininess     = s.m_objectMaterials[index + 1].shininess],
                index |-> index ]
         ELSE FindMaterialFrom(s, tag, material, index + 1)
    ELSE [material |-> material, index |-> index]

\* a plausible slip: no early return for the empty registry
FindMaterial_NoEmptyCheck(s, tag, material) ==
    LET r == FindMaterialFrom(s, tag, material, 0)
    IN  [ret |-> TRUE, material |-> r.material, index |-> r.index]

\* a plausible slip (or repair): bFound is returned instead of true
FindMaterial_ReturnsFound(s, tag, material) ==
    IF Len(s.m_objectMaterials) = 0
    THEN [ret |-> FALSE, material |-> material, index |-> 0]
    ELSE LET r == FindMaterialFrom(s, tag, material, 0)
         IN  [ ret |-> r.index < Len(s.m_objectMaterials),
               material |-> r.material, index |-> r.index ]

\* bool FindMaterial(tag, OBJECT_MATERIAL& material): the value returned, the
\* caller's material after the call, and where the scan stopped
FindMaterial(s, tag, material) ==
    IF Len(s.m_objectMaterials) = 0
    THEN [ret |-> FALSE, material |-> material, index |-> 0]
    ELSE LET r == FindMaterialFrom(s, tag, material, 0)
         IN  [ret |-> TRUE, material |-> r.material, index |-> r.index]

----------------------------------------------------------------------------
(* Transform builder.  Matrices are 4x4, << row1, row2, row3, row4 >>, over  *)
(* the integers; angles are multiples of 90 degrees, whose sine and cosine   *)
(* are integers.                                                             *)

Degrees == {0, 90, 180, 270}

\* glm::cos(glm::radians(d)) and glm::sin(glm::radians(d))
Cos(d) == CASE d = 0 -> 1 [] d = 90 -> 0 [] d = 180 -> -1 [] d = 270 -> 0
Sin(d) == CASE d = 0 -> 0 [] d = 90 -> 1 [] d = 180 -> 0 [] d = 270 -> -1

\* row i of A times column j of B
Dot(A, B, i, j) ==
    A[i][1] * B[1][j] + A[i][2] * B[2][j] + A[i][3] * B[3][j] + A[i][4] * B[4][j]

MatRow(A, B, i) == << Dot(A, B, i, 1), Dot(A, B, i, 2), Dot(A, B, i, 3), Dot(A, B, i, 4) >>

\* glm::mat4 operator*
MatMul(A, B) == << MatRow(A, B, 1), MatRow(A, B, 2), MatRow(A, B, 3), MatRow(A, B, 4) >>

\* glm::scale(v)
GlmScale(v) ==
    << << v[1], 0, 0, 0 >>,
       << 0, v[2], 0, 0 >>,
       << 0, 0, v[3], 0 >>,
       << 0, 0, 0, 1 >> >>

\* glm::translate(v)
GlmTranslate(v) ==
    << << 1, 0, 0, v[1] >>,
       << 0, 1, 0, v[2] >>,
       << 0, 0, 1, v[3] >>,
       << 0, 0, 0, 1 >> >>

\* glm::rotate(glm::radians(d), glm::vec3(1, 0, 0))
GlmRotateX(d) ==
    << << 1, 0, 0, 0 >>,
       << 0, Cos(d), -Sin(d), 0 >>,
       << 0, Sin(d), Cos(d), 0 >>,
       << 0, 0, 0, 1 >> >>

\* glm::rotate(glm::radians(d), glm::vec3(0, 1, 0))
GlmRotateY(d) ==
    << << Cos(d), 0, Sin(d), 0 >>,
       << 0, 1, 0, 0 >>,
       << -Sin(d), 0, Cos(d), 0 >>,
       << 0, 0, 0, 1 >> >>

\* glm::rotate(glm::radians(d), glm::vec3(0, 0, 1))
GlmRotateZ(d) ==
    << << Cos(d), -Sin(d), 0, 0 >>,
       << Sin(d), Cos(d), 0, 0 >>,
       << 0, 0, 1, 0 >>,
       << 0, 0, 0, 1 >> >>

\* a plausible slip: the factors multiplied in the order they were computed
ModelView_ScaleLast(scaleXYZ, Xdeg, Ydeg, Zdeg, positionXYZ) ==
    MatMul(
      MatMul(
        MatMul(
          MatMul(GlmScale(scaleXYZ), GlmRotateX(Xdeg)),
          GlmRotateY(Ydeg)),
        GlmRotateZ(Zdeg)),
      GlmTranslate(positionXYZ))

\* modelView = translation * rotationZ * rotationY * rotationX * scale
\* (operator* is left-associative)
ModelView(scaleXYZ, Xdeg, Ydeg, Zdeg, positionXYZ) ==
    MatMul(
      MatMul(
        MatMul(
          MatMul(GlmTranslate(positionXYZ), GlmRotateZ(Zdeg)),
          GlmRotateY(Ydeg)),
        GlmRotateX(Xdeg)),
      GlmScale(scaleXYZ))

\* void SetTransformations(scaleXYZ, X, Y, Z, positionXYZ)
SetTransformations(s, scaleXYZ, Xdeg, Ydeg, Zdeg, positionXYZ) ==
    LET modelView == ModelView(scaleXYZ, Xdeg, Ydeg, Zdeg, positionXYZ)
    IN  IF s.m_pShaderManager # NULL
        THEN [s EXCEPT !.shader.model = modelView]
        ELSE s

----------------------------------------------------------------------------
(* Shading state setters.  Colours are << r, g, b, a >> in tenths.           *)

\* a plausible slip: the colour is stored but texturing is left as it was
SetShaderColor_KeepsFlag(s, currentColor) ==
    IF s.m_pShaderManager # NULL
    THEN [s EXCEPT !.shader.objectColor = currentColor]
    ELSE s

\* void SetShaderColor(red, green, blue, alpha)
SetShaderColor(s, currentColor) ==
    IF s.m_pShaderManager # NULL
    THEN [s EXCEPT !.shader.bUseTexture = FALSE,
                   !.shader.objectColor = currentColor]
    ELSE s

\* a plausible repair: the tag's unit is made the active one, so that
\* glTexParameteri calls that follow reach the selected texture
SetShaderTexture_ActivatesUnit(s, textureTag) ==
    IF s.m_pShaderManager # NULL
    THEN [s EXCEPT !.shader.bUseTexture = TRUE,
                   !.shader.objectTexture = FindTextureSlot(s, textureTag),
                   !.gl = glActiveTexture(s.gl, FindTextureSlot(s, textureTag))]
    ELSE s

\* void SetShaderTexture(textureTag)
SetShaderTexture(s, textureTag) ==
    IF s.m_pShaderManager # NULL
    THEN [s EXCEPT !.shader.bUseTexture = TRUE,
                   !.shader.objectTexture = FindTextureSlot(s, textureTag)]
    ELSE s

\* void SetTextureUVScale(u, v)
SetTextureUVScale(s, u, v) ==
    IF s.m_pShaderManager # NULL
    THEN [s EXCEPT !.shader.UVscale = << u, v >>]
    ELSE s

\* a plausible slip (or repair): nothing is forwarded when no material has
\* the tag
SetShaderMaterial_KeepsOnMiss(s, materialTag, local) ==
    IF \E i \in 1..Len(s.m_objectMaterials) : s.m_objectMaterials[i].tag = materialTag
    THEN LET r == FindMaterial(s, materialTag, local)
         IN  IF s.m_pShaderManager = NULL
             THEN [s EXCEPT !.crashed = TRUE]
             ELSE [s EXCEPT !.shader.material =
                     [ diffuseColor  |-> r.material.diffuseColor,
                       specularColor |-> r.material.specularColor,
                       shininess     |-> r.material.shininess ]]
    ELSE s

\* void SetShaderMaterial(materialTag).  local is the value the method's
\* unassigned local OBJECT_MATERIAL happens to hold.  m_pShaderManager is
\* dereferenced without a check.
SetShaderMaterial(s, materialTag, local) ==
    IF Len(s.m_objectMaterials) > 0
    THEN LET r == FindMaterial(s, materialTag, local)
         IN  IF r.ret = TRUE
             THEN IF s.m_pShaderManager = NULL
                  THEN [s EXCEPT !.crashed = TRUE]
                  ELSE [s EXCEPT !.shader.material =
                          [ diffuseColor  |-> r.material.diffuseColor,
                            specularColor |-> r.material.specularColor,
                            shininess     |-> r.material.shininess ]]
             ELSE s
    ELSE s

\* the uniforms SetupSceneLights assigns (their values are literals)
LightUniforms ==
    { << "directionalLight", f >> :
        f \in {"direction", "ambient", "diffuse", "specular", "bActive"} }
    \cup
    { << l, f >> :
        l \in { "pointLights[0]", "pointLights[1]", "pointLights[2]",
                "pointLights[3]", "pointLights[4]" },
        f \in {"position", "ambient", "diffuse", "specular", "bActive"} }
    \cup
    { << "spotLight", f >> :
        f \in { "ambient", "diffuse", "specular", "constant", "linear",
                "quadratic", "cutOff", "outerCutOff", "bActive" } }

\* void SetupSceneLights(): every statement dereferences m_pShaderManager
SetupSceneLights(s) ==
    IF s.m_pShaderManager = NULL
    THEN [s EXCEPT !.crashed = TRUE]
    ELSE [s EXCEPT !.shader.bUseLighting = TRUE,
                   !.shader.lights = LightUniforms]

----------------------------------------------------------------------------
(* The scene: its textures, its orchestration                                *)

\* LoadSceneTextures' CreateGLTexture calls, in order
SceneTextures ==
    << [file |-> "textures/wood2.jpg",                  type |-> "jpg", tag |-> "floor"],
       [file |-> "textures/Texturelabs_Glass_134S.jpg", type |-> "jpg", tag |-> "tbottle"],
       [file |-> "textures/metalbottle.jpg",            type |-> "jpg", tag |-> "bottle"],
       [file |-> "textures/tabasco.png",                type |-> "png", tag |-> "tlabel"],
       [file |-> "textures/Texturelabs_Paper_334S.jpg", type |-> "jpg", tag |-> "hdrive"],
       [file |-> "textures/mouth.jpg",                  type |-> "jpg", tag |-> "smile"],
       [file |-> "textures/coffee.png",                 type |-> "png", tag |-> "coffee"] >>

SceneTags == { SceneTextures[k].tag : k \in 1..Len(SceneTextures) }

\* what stbi_load can return for a file of the type: a JPEG decodes to 1 or 3
\* channels, a PNG to 1..4; any file may be missing or corrupt
FileImages(type) ==
    IF type = "jpg" THEN {NullImage, 1, 3} ELSE Images

\* ShapeMeshes: the Load*Mesh calls of PrepareScene
SceneMeshes == {"Plane", "Cone", "Box", "Prism", "Cylinder", "Torus"}

\* m_basicMeshes->Draw*Mesh(): the draw sees the uniforms as they are
DrawMesh(s, mesh) ==
    [s EXCEPT !.drawLog = Append(@, [mesh |-> mesh, shader |-> s.shader])]

\* The statements of RenderScene, in order.  Scales and positions are in
\* thousandths, colours in tenths.
RenderSceneCommands ==
    << \* floor
       [op |-> "SetTransformations", a |-> << <<20000, 1000, 10000>>, 0, 0, 0, <<0, 0, 0>> >>],
       [op |-> "SetShaderTexture",   a |-> << "floor" >>],
       [op |-> "Draw",               a |-> << "Plane" >>],
       \* Tabasco bottle: lower body, upper body, cap, label
       [op |-> "SetTransformations", a |-> << <<400, 900, 400>>, 0, 0, 0, <<0, 0, 0>> >>],
       [op |-> "SetShaderTexture",   a |-> << "tbottle" >>],
       [op |-> "SetShaderMaterial",  a |-> << "glass" >>],
       [op |-> "Draw",               a |-> << "Cylinder" >>],
       [op |-> "SetTransformations", a |-> << <<250, 600, 250>>, 0, 0, 0, <<0, 900, 0>> >>],
       [op |-> "SetShaderTexture",   a |-> << "tbottle" >>],
       [op |-> "SetShaderMaterial",  a |-> << "glass" >>],
       [op |-> "Draw",               a |-> << "Cylinder" >>],
       [op |-> "SetTransformations", a |-> << <<300, 300, 300>>, 0, 0, 0, <<0, 1500, 0>> >>],
       [op |-> "SetShaderColor",     a |-> << <<9, 1, 1, 10>> >>],
       [op |-> "Draw",               a |-> << "Prism" >>],
       [op |-> "SetTransformations", a |-> << <<200, 450, 25>>, 0, 0, 0, <<0, 500, 400>> >>],
       [op |-> "SetShaderTexture",   a |-> << "tlabel" >>],
       [op |-> "Draw",               a |-> << "Box" >>],
       \* water bottle: body, bottom ring, cap, handle
       [op |-> "SetTransformations", a |-> << <<800, 3000, 800>>, 0, 0, 0, <<-3000, 0, 0>> >>],
       [op |-> "SetShaderColor",     a |-> << <<1, 1, 1, 10>> >>],
       [op |-> "SetShaderMaterial",  a |-> << "metal" >>],
       [op |-> "Draw",               a |-> << "Cylinder" >>],
       [op |-> "SetTransformations", a |-> << <<800, 100, 800>>, 0, 0, 0, <<-3000, 100, 0>> >>],
       [op |-> "SetShaderColor",     a |-> << <<7, 7, 7, 10>> >>],
       [op |-> "Draw",               a |-> << "Cylinder" >>],
       [op |-> "SetTransformations", a |-> << <<700, 400, 700>>, 0, 0, 0, <<-3000, 3000, 0>> >>],
       [op |-> "SetShaderColor",     a |-> << <<1, 1, 1, 10>> >>],
       [op |-> "Draw",               a |-> << "Cylinder" >>],
       [op |-> "SetTransformations", a |-> << <<150, 40, 700>>, 180, 0, 0, <<-2600, 3200, 0>> >>],
       [op |-> "SetShaderColor",     a |-> << <<1, 1, 1, 10>> >>],
       [op |-> "Draw",               a |-> << "Cylinder" >>],
       \* record
       [op |-> "SetTransformations", a |-> << <<2000, 50, 3000>>, 0, 0, 0, <<0, 0, 3000>> >>],
       [op |-> "glTexParameteri",    a |-> << "GL_TEXTURE_WRAP_S", "GL_CLAMP_TO_EDGE" >>],
       [op |-> "glTexParameteri",    a |-> << "GL_TEXTURE_WRAP_T", "GL_CLAMP_TO_EDGE" >>],
       [op |-> "SetTextureUVScale",  a |-> << 1, 1 >>],
       [op |-> "SetShaderTexture",   a |-> << "hdrive" >>],
       [op |-> "Draw",               a |-> << "Box" >>],
       \* coffee mug: outer body, inner body, handle, bottom
       [op |-> "SetTransformations", a |-> << <<600, 800, 600>>, 0, 0, 0, <<3000, 0, 0>> >>],
       [op |-> "SetShaderColor",     a |-> << <<0, 8, 0, 10>> >>],
       [op |-> "SetShaderTexture",   a |-> << "smile" >>],
       [op |-> "Draw",               a |-> << "Cylinder" >>],
       [op |-> "SetTransformations", a |-> << <<590, 790, 590>>, 0, 0, 0, <<3000, 20, 0>> >>],
       [op |-> "SetShaderColor",     a |-> << <<0, 4, 0, 10>> >>],
       [op |-> "SetShaderTexture",   a |-> << "coffee" >>],
       [op |-> "Draw",               a |-> << "Cylinder" >>],
       [op |-> "SetTransformations", a |-> << <<150, 300, 100>>, 180, 0, 0, <<3600, 400, 0>> >>],
       [op |-> "SetShaderColor",     a |-> << <<0, 8, 0, 10>> >>],
       [op |-> "Draw",               a |-> << "Torus" >>],
       [op |-> "SetTransformations", a |-> << <<550, 20, 550>>, 0, 0, 0, <<3000, -350, 0>> >>],
       [op |-> "SetShaderColor",     a |-> << <<0, 8, 0, 10>> >>],
       [op |-> "Draw",               a |-> << "Cylinder" >>] >>

\* positions in drawLog of the mug's outer and inner body
MugOuterDraw == 11
MugInnerDraw == 12

\* one statement of RenderScene
Exec(s, c, local) ==
    CASE c.op = "SetTransformations" ->
           SetTransformations(s, c.a[1], c.a[2], c.a[3], c.a[4], c.a[5])
      [] c.op = "SetShaderColor"     -> SetShaderColor(s, c.a[1])
      [] c.op = "SetShaderTexture"   -> SetShaderTexture(s, c.a[1])
      [] c.op = "SetShaderMaterial"  -> SetShaderMaterial(s, c.a[1], local)
      [] c.op = "SetTextureUVScale"  -> SetTextureUVScale(s, c.a[1], c.a[2])
      [] c.op = "glTexParameteri"    ->
           [s EXCEPT !.gl = glTexParameteri(s.gl, c.a[1], c.a[2])]
      [] c.op = "Draw"               -> DrawMesh(s, c.a[1])

RECURSIVE Run(_, _, _, _)
\* statements k.. of cmds, one after the other; a crash ends the run
Run(s, cmds, k, local) ==
    IF k > Len(cmds) \/ s.crashed
    THEN s
    ELSE Run(Exec(s, cmds[k], local), cmds, k + 1, local)

\* a plausible slip: the materials are defined again in every frame
RenderScene_RedefinesMaterials(s, local) ==
    Run([DefineObjectMaterials(s) EXCEPT !.drawLog = << >>],
        RenderSceneCommands, 1, local)

\* a plausible variation: a frame starts from cleared material and UV-scale
\* uniforms, so that nothing is left over from the frame before
RenderScene_ClearsUniforms(s, local) ==
    Run([s EXCEPT !.drawLog = << >>,
                  !.shader.UVscale = << 0, 0 >>,
                  !.shader.material = [ diffuseColor |-> << 0, 0, 0 >>,
                                        specularColor |-> << 0, 0, 0 >>,
                                        shininess |-> 0 ]],
        RenderSceneCommands, 1, local)

\* void RenderScene(): one frame
RenderScene(s, local) ==
    Run([s EXCEPT !.drawLog = << >>], RenderSceneCommands, 1, local)

RECURSIVE LoadSceneTexturesFrom(_, _, _, _)
\* the CreateGLTexture calls k.. of LoadSceneTextures; images[k] is what
\* stbi_load returns for the k-th file; log collects [tag, image, ok]
LoadSceneTexturesFrom(s, images, k, log) ==
    IF k > Len(SceneTextures) \/ s.crashed
    THEN [s |-> s, log |-> log]
    ELSE LET r == CreateGLTexture(s, SceneTextures[k].tag, images[k])
         IN  LoadSceneTexturesFrom(
               r.s, images, k + 1,
               Append(log, [ tag |-> SceneTextures[k].tag,
                             image |-> images[k], ok |-> r.ret ]))

\* void LoadSceneTextures()
LoadSceneTextures(s, images) ==
    LET r == LoadSceneTexturesFrom(s, images, 1, << >>)
    IN  [ s   |-> IF r.s.crashed THEN r.s ELSE BindGLTextures(r.s),
          log |-> r.log ]

\* void PrepareScene()
PrepareScene(s, images) ==
    LET r == LoadSceneTextures(s, images)
        lit == IF r.s.crashed
               THEN r.s
               ELSE SetupSceneLights(DefineObjectMaterials(r.s))
    IN  [ s   |-> IF lit.crashed
                  THEN lit
                  ELSE [lit EXCEPT !.m_basicMeshes = SceneMeshes],
          log |-> r.log ]

----------------------------------------------------------------------------
(* The state after construction *)

ZeroMatrix ==
    << << 0, 0, 0, 0 >>, << 0, 0, 0, 0 >>, << 0, 0, 0, 0 >>, << 0, 0, 0, 0 >> >>

\* the uniforms of a program that has just been linked are zero
InitUniforms ==
    [ model |-> ZeroMatrix, bUseTexture |-> FALSE, objectTexture |-> 0,
      objectColor |-> << 0, 0, 0, 0 >>, UVscale |-> << 0, 0 >>,
      material |-> [ diffuseColor |-> << 0, 0, 0 >>,
                     specularColor |-> << 0, 0, 0 >>, shininess |-> 0 ],
      bUseLighting |-> FALSE, lights |-> {} ]

\* SceneManager(pShaderManager) on a fresh OpenGL context
Constructed(pShaderManager) ==
    /\ m_pShaderManager = pShaderManager
    /\ m_loadedTextures = InitialLoadedTextures
    /\ m_textureIDs = [i \in {} |-> [ID |-> 0, tag |-> ""]]
    /\ m_objectMaterials = << >>
    /\ m_basicMeshes = {}
    /\ gl = InitGL
    /\ shader = InitUniforms
    /\ hist = << >>
    /\ drawLog = << >>

NoCall == [op |-> "SceneManager", tag |-> "", arg |-> 0, value |-> 0]

Called(op, tag, arg, value) ==
    ret' = [op |-> op, tag |-> tag, arg |-> arg, value |-> value]

\* the caller's position after a call that leaves the object in state s
After(s, next) == pc' = IF s.crashed THEN "crashed" ELSE next

----------------------------------------------------------------------------
(* Registry calls issued one at a time on a constructed object.  The two    *)
(* registries share no data, so a call sequence exercises one of them: pc   *)
(* says which.                                                              *)

Init ==
    /\ Constructed(ShaderMgr)
    /\ ret = NoCall
    /\ pc \in {"textures", "materials"}

CallCreateGLTexture ==
    /\ pc = "textures"
    /\ Len(hist) < MaxLoads
    /\ \E tag \in Tags, image \in Images :
         \E self \in Selves : \E r \in {CreateGLTexture(self, tag, image)} :
         /\ Install(r.s)
         /\ After(r.s, pc)
         /\ Called("CreateGLTexture", tag, image, r.ret)
         /\ hist' = Append(hist, [tag |-> tag, image |-> image, ok |-> r.ret])

CallBindGLTextures ==
    /\ pc = "textures"
    /\ \E s \in {BindGLTextures(Self)} : Install(s)
    /\ Called("BindGLTextures", "", 0, 0)
    /\ UNCHANGED << pc, hist >>

CallFindTextureID ==
    /\ pc = "textures"
    /\ \E tag \in Tags : Called("FindTextureID", tag, 0, FindTextureID(Self, tag))
    /\ \E s \in {Self} : Install(s)
    /\ UNCHANGED << pc, hist >>

CallFindTextureSlot ==
    /\ pc = "textures"
    /\ \E tag \in Tags : Called("FindTextureSlot", tag, 0, FindTextureSlot(Self, tag))
    /\ \E s \in {Self} : Install(s)
    /\ UNCHANGED << pc, hist >>

\* tags a test sequence looks materials up by ("plastic" is never defined)
MaterialTags == {"glass", "metal", "wood", "plastic"}
\* values of the material object a caller passes by reference
CallerMaterials ==
    { [ tag |-> "", diffuseColor |-> <<0, 0, 0>>,
        specularColor |-> <<0, 0, 0>>, shininess |-> 0 ],
      [ tag |-> "mine", diffuseColor |-> <<1, 2, 3>>,
        specularColor |-> <<4, 5, 6>>, shininess |-> 7 ] }

CallDefineObjectMaterials ==
    /\ pc = "materials"
    /\ Len(m_objectMaterials) < 3 * MaxDefines
    /\ \E s \in {DefineObjectMaterials(Self)} : Install(s)
    /\ Called("DefineObjectMaterials", "", 0, 0)
    /\ UNCHANGED << pc, hist >>

CallFindMaterial ==
    /\ pc = "materials"
    /\ \E tag \in MaterialTags, material \in CallerMaterials :
         Called("FindMaterial", tag, material, FindMaterial(Self, tag, material))
    /\ \E s \in {Self} : Install(s)
    /\ UNCHANGED << pc, hist >>

Next ==
    \/ CallCreateGLTexture
    \/ CallBindGLTextures
    \/ CallFindTextureID
    \/ CallFindTextureSlot
    \/ CallDefineObjectMaterials
    \/ CallFindMaterial

Spec == Init /\ [][Next]_vars

----------------------------------------------------------------------------
(* SetTransformations applied once to arguments drawn from bounded sets      *)

\* scale components are 1..MaxScale, position components -MaxCoord..MaxCoord
MaxScale == 2
MaxCoord == 1

Scales == (1..MaxScale) \X (1..MaxScale) \X (1..MaxScale)
Positions == (-MaxCoord..MaxCoord) \X (-MaxCoord..MaxCoord) \X (-MaxCoord..MaxCoord)

InitTransform ==
    /\ Constructed(ShaderMgr)
    /\ pc = "transform"
    /\ \E scaleXYZ \in Scales, X \in Degrees, Y \in Degrees, Z \in Degrees,
          positionXYZ \in Positions :
         ret = [ op |-> "arguments", tag |-> "",
                 arg |-> << scaleXYZ, X, Y, Z, positionXYZ >>, value |-> 0 ]

CallSetTransformations ==
    /\ pc = "transform"
    /\ ret.op = "arguments"
    /\ \E s \in {SetTransformations(Self, ret.arg[1], ret.arg[2], ret.arg[3],
                                   ret.arg[4], ret.arg[5])} : Install(s)
    /\ Called("SetTransformations", "", ret.arg, 0)
    /\ UNCHANGED << pc, hist >>

NextTransform == CallSetTransformations

SpecTransform == InitTransform /\ [][NextTransform]_vars

----------------------------------------------------------------------------
(* The program: PrepareScene once, then RenderScene every frame             *)

\* files of the scene that fail to load
MaxBadFiles == 2

BadFiles == Cardinality({k \in 1..Len(hist) : ~hist[k].ok})

InitScene ==
    /\ \E p \in {NULL, ShaderMgr} : Constructed(p)
    /\ ret = NoCall
    /\ pc = "constructed"

\* PrepareScene() is called and calls LoadSceneTextures()
ScenePrepare ==
    /\ pc = "constructed"
    /\ pc' = "LoadSceneTextures"
    /\ \E s \in {Self} : Install(s)
    /\ Called("PrepareScene", "", 0, 0)
    /\ UNCHANGED hist

\* a plausible slip: LoadSceneTextures returns at the first load that fails
SceneCreateGLTexture_StopsOnFailure ==
    /\ pc = "LoadSceneTextures"
    /\ Len(hist) < Len(SceneTextures)
    /\ LET t == SceneTextures[Len(hist) + 1] IN
       \E image \in FileImages(t.type) :
         /\ image \in {3, 4} \/ BadFiles < MaxBadFiles
         /\ \E self \in Selves : \E r \in {CreateGLTexture(self, t.tag, image)} :
            /\ Install(r.s)
            /\ Called("CreateGLTexture", t.tag, image, r.ret)
            /\ hist' = Append(hist, [tag |-> t.tag, image |-> image, ok |-> r.ret])
            /\ pc' = IF r.ret THEN pc ELSE "DefineObjectMaterials"

\* LoadSceneTextures: the next CreateGLTexture call
SceneCreateGLTexture ==
    /\ pc = "LoadSceneTextures"
    /\ Len(hist) < Len(SceneTextures)
    /\ LET t == SceneTextures[Len(hist) + 1] IN
       \E image \in FileImages(t.type) :
         /\ image \in {3, 4} \/ BadFiles < MaxBadFiles
         /\ \E self \in Selves : \E r \in {CreateGLTexture(self, t.tag, image)} :
            /\ Install(r.s)
            /\ After(r.s, pc)
            /\ Called("CreateGLTexture", t.tag, image, r.ret)
            /\ hist' = Append(hist, [tag |-> t.tag, image |-> image, ok |-> r.ret])

\* a plausible slip: LoadSceneTextures binds and returns as soon as a load
\* has failed
SceneBindGLTextures_OnFailure ==
    /\ pc = "LoadSceneTextures"
    /\ \/ Len(hist) = Len(SceneTextures)
       \/ Len(hist) > 0 /\ ~hist[Len(hist)].ok
    /\ \E s \in {BindGLTextures(Self)} : Install(s)
    /\ Called("BindGLTextures", "", 0, 0)
    /\ pc' = "DefineObjectMaterials"
    /\ UNCHANGED hist

\* LoadSceneTextures: BindGLTextures() after the last load, and return
SceneBindGLTextures ==
    /\ pc = "LoadSceneTextures"
    /\ Len(hist) = Len(SceneTextures)
    /\ \E s \in {BindGLTextures(Self)} : Install(s)
    /\ Called("BindGLTextures", "", 0, 0)
    /\ pc' = "DefineObjectMaterials"
    /\ UNCHANGED hist

SceneDefineObjectMaterials ==
    /\ pc = "DefineObjectMaterials"
    /\ \E s \in {DefineObjectMaterials(Self)} : Install(s)
    /\ Called("DefineObjectMaterials", "", 0, 0)
    /\ pc' = "SetupSceneLights"
    /\ UNCHANGED hist

SceneSetupSceneLights ==
    /\ pc = "SetupSceneLights"
    /\ \E s \in {SetupSceneLights(Self)} :
       /\ Install(s)
       /\ After(s, "LoadMeshes")
    /\ Called("SetupSceneLights", "", 0, 0)
    /\ UNCHANGED hist

\* the six Load*Mesh calls; PrepareScene returns
SceneLoadMeshes ==
    /\ pc = "LoadMeshes"
    /\ \E s \in {[Self EXCEPT !.m_basicMeshes = SceneMeshes]} : Install(s)
    /\ Called("LoadMeshes", "", 0, 0)
    /\ pc' = "ready"
    /\ UNCHANGED hist

\* one frame
SceneRenderScene ==
    /\ pc = "ready"
    /\ \E local \in CallerMaterials :
         \E s \in {RenderScene(Self, local)} :
         /\ Install(s)
         /\ After(s, "ready")
    /\ Called("RenderScene", "", 0, 0)
    /\ UNCHANGED hist

NextScene ==
    \/ ScenePrepare
    \/ SceneCreateGLTexture
    \/ SceneBindGLTextures
    \/ SceneDefineObjectMaterials
    \/ SceneSetupSceneLights
    \/ SceneLoadMeshes
    \/ SceneRenderScene

SpecScene == InitScene /\ [][NextScene]_vars

----------------------------------------------------------------------------
(* The program, and DestroyGLTextures called on the prepared scene           *)

\* calls of DestroyGLTextures
MaxDestroys == 2

\* the names glGenTextures handed out in CreateGLTexture: one per decoded file
LoadedNames == Cardinality({k \in 1..Len(hist) : hist[k].image # NullImage})

\* the calls of DestroyGLTextures so far: each generates one name per entry
Destroys ==
    IF m_loadedTextures = 0 THEN 0
    ELSE (gl.nextName - 1 - LoadedNames) \div m_loadedTextures

\* DestroyGLTextures() on the prepared scene, before or between frames
SceneDestroyGLTextures ==
    /\ pc = "ready" \/ (pc = "destroyed" /\ Destroys < MaxDestroys)
    /\ \E s \in {DestroyGLTextures(Self)} : Install(s)
    /\ Called("DestroyGLTextures", "", 0, 0)
    /\ pc' = "destroyed"
    /\ UNCHANGED hist

NextTeardown ==
    \/ NextScene
    \/ SceneDestroyGLTextures

SpecTeardown == InitScene /\ [][NextTeardown]_vars

----------------------------------------------------------------------------
(* The shading setters: either the program runs (PrepareScene, then frames), *)
(* or a test sequence loads textures and calls the setters one at a time     *)

\* CreateGLTexture calls of a setter test sequence
MaxShadeLoads == 2

ShadeColors == { <<9, 1, 1, 10>>, <<0, 4, 0, 10>> }
ShadeImages == {NullImage, 3}

InitShade ==
    /\ \E p \in {NULL, ShaderMgr} : Constructed(p)
    /\ ret = NoCall
    /\ pc \in {"constructed", "shading"}

CallShadeCreateGLTexture ==
    /\ pc = "shading"
    /\ Len(hist) < MaxShadeLoads
    /\ \E tag \in Tags, image \in ShadeImages :
         \E self \in Selves : \E r \in {CreateGLTexture(self, tag, image)} :
         /\ Install(r.s)
         /\ After(r.s, pc)
         /\ Called("CreateGLTexture", tag, image, r.ret)
         /\ hist' = Append(hist, [tag |-> tag, image |-> image, ok |-> r.ret])

CallSetShaderColor ==
    /\ pc = "shading"
    /\ \E color \in ShadeColors :
         /\ \E s \in {SetShaderColor(Self, color)} : Install(s)
         /\ Called("SetShaderColor", "", color, 0)
    /\ UNCHANGED << pc, hist >>

CallSetShaderTexture ==
    /\ pc = "shading"
    /\ \E tag \in Tags :
         /\ \E s \in {SetShaderTexture(Self, tag)} : Install(s)
         /\ Called("SetShaderTexture", tag, 0, 0)
    /\ UNCHANGED << pc, hist >>

NextShade ==
    \/ NextScene
    \/ CallShadeCreateGLTexture
    \/ CallSetShaderColor
    \/ CallSetShaderTexture

SpecShade == InitShade /\ [][NextShade]_vars

----------------------------------------------------------------------------
(* The six setters called one at a time, with or without a shader manager,   *)
(* on an object whose registries a test sequence fills                       *)

\* CreateGLTexture and DefineObjectMaterials calls of a setter test sequence
MaxSetterLoads == 1
MaxSetterDefines == 1

SetterTextureTags == {"a", "b"}
SetterMaterialTags == {"metal", "plastic"}
SetterTransform == << <<2, 1, 1>>, 0, 90, 0, <<1, 0, 0>> >>
SetterColor == << 9, 1, 1, 10 >>
SetterUVScale == << 2, 2 >>

\* the rendering thread is between two frames
FrameOps == {"PrepareScene", "RenderScene"}

\* a setter is called in a setter test sequence, or once between two frames
SetterCallAllowed ==
    \/ pc = "setters"
    \/ pc = "ready" /\ ret.op \in FrameOps

InitSetters ==
    /\ \E p \in {NULL, ShaderMgr} : Constructed(p)
    /\ ret = NoCall
    /\ pc = "setters"

SettersCreateGLTexture ==
    /\ pc = "setters"
    /\ Len(hist) < MaxSetterLoads
    /\ \E self \in Selves : \E r \in {CreateGLTexture(self, "a", 3)} :
         /\ Install(r.s)
         /\ After(r.s, pc)
         /\ Called("CreateGLTexture", "a", 3, r.ret)
         /\ hist' = Append(hist, [tag |-> "a", image |-> 3, ok |-> r.ret])

SettersDefineObjectMaterials ==
    /\ pc = "setters"
    /\ Len(m_objectMaterials) < 3 * MaxSetterDefines
    /\ \E s \in {DefineObjectMaterials(Self)} : Install(s)
    /\ Called("DefineObjectMaterials", "", 0, 0)
    /\ UNCHANGED << pc, hist >>

SettersSetTransformations ==
    /\ SetterCallAllowed
    /\ \E s \in {SetTransformations(Self, SetterTransform[1], SetterTransform[2],
                                   SetterTransform[3], SetterTransform[4],
                                   SetterTransform[5])} :
         /\ Install(s)
         /\ After(s, pc)
    /\ Called("SetTransformations", "", SetterTransform, 0)
    /\ UNCHANGED hist

SettersSetShaderColor ==
    /\ SetterCallAllowed
    /\ \E s \in {SetShaderColor(Self, SetterColor)} :
         /\ Install(s)
         /\ After(s, pc)
    /\ Called("SetShaderColor", "", SetterColor, 0)
    /\ UNCHANGED hist

SettersSetShaderTexture ==
    /\ SetterCallAllowed
    /\ \E tag \in SetterTextureTags :
         /\ \E s \in {SetShaderTexture(Self, tag)} :
              /\ Install(s)
              /\ After(s, pc)
         /\ Called("SetShaderTexture", tag, 0, 0)
    /\ UNCHANGED hist

SettersSetTextureUVScale ==
    /\ SetterCallAllowed
    /\ \E s \in {SetTextureUVScale(Self, SetterUVScale[1], SetterUVScale[2])} :
         /\ Install(s)
         /\ After(s, pc)
    /\ Called("SetTextureUVScale", "", SetterUVScale, 0)
    /\ UNCHANGED hist

\* local: what the unassigned OBJECT_MATERIAL of the method holds in this call
SettersSetShaderMaterial ==
    /\ SetterCallAllowed
    /\ \E tag \in SetterMaterialTags, local \in CallerMaterials :
         /\ \E s \in {SetShaderMaterial(Self, tag, local)} :
              /\ Install(s)
              /\ After(s, pc)
         /\ Called("SetShaderMaterial", tag, local, 0)
    /\ UNCHANGED hist

SettersSetupSceneLights ==
    /\ SetterCallAllowed
    /\ \E s \in {SetupSceneLights(Self)} :
         /\ Install(s)
         /\ After(s, pc)
    /\ Called("SetupSceneLights", "", 0, 0)
    /\ UNCHANGED hist

NextSetters ==
    \/ SettersCreateGLTexture
    \/ SettersDefineObjectMaterials
    \/ SettersSetTransformations
    \/ SettersSetShaderColor
    \/ SettersSetShaderTexture
    \/ SettersSetTextureUVScale
    \/ SettersSetShaderMaterial
    \/ SettersSetupSceneLights

SpecSetters == InitSetters /\ [][NextSetters]_vars

----------------------------------------------------------------------------
(* After PrepareScene: frames, and between two frames one lookup, bind or    *)
(* setter call                                                               *)

\* what stbi_load returns for the seven files, one tuple per scenario: all
\* load; the paper file is missing; two files have channel counts that are
\* rejected; the last two files are missing; no file is there
PreparedFiles ==
    { << 3, 3, 3, 4, 3, 3, 4 >>,
      << 3, 3, 3, 4, NullImage, 3, 4 >>,
      << 3, 1, 3, 2, 3, 3, 3 >>,
      << 3, 3, 3, 4, 3, NullImage, NullImage >>,
      << NullImage, NullImage, NullImage, NullImage, NullImage, NullImage, NullImage >> }

ReadyTextureTags == {"hdrive", "coffee", "none"}

\* PrepareScene(), the whole call
CallPrepareScene ==
    /\ pc = "constructed"
    /\ \E images \in PreparedFiles :
         \E self \in Selves : \E r \in {PrepareScene(self, images)} :
         /\ Install(r.s)
         /\ After(r.s, "ready")
         /\ hist' = hist \o r.log
    /\ Called("PrepareScene", "", 0, 0)

BetweenFrames == pc = "ready" /\ ret.op \in FrameOps

ReadyFindTextureID ==
    /\ BetweenFrames
    /\ \E tag \in ReadyTextureTags :
         Called("FindTextureID", tag, 0, FindTextureID(Self, tag))
    /\ \E s \in {Self} : Install(s)
    /\ UNCHANGED << pc, hist >>

ReadyFindTextureSlot ==
    /\ BetweenFrames
    /\ \E tag \in ReadyTextureTags :
         Called("FindTextureSlot", tag, 0, FindTextureSlot(Self, tag))
    /\ \E s \in {Self} : Install(s)
    /\ UNCHANGED << pc, hist >>

ReadyFindMaterial ==
    /\ BetweenFrames
    /\ \E tag \in SetterMaterialTags, material \in CallerMaterials :
         Called("FindMaterial", tag, material, FindMaterial(Self, tag, material))
    /\ \E s \in {Self} : Install(s)
    /\ UNCHANGED << pc, hist >>

ReadyBindGLTextures ==
    /\ BetweenFrames
    /\ \E s \in {BindGLTextures(Self)} : Install(s)
    /\ Called("BindGLTextures", "", 0, 0)
    /\ UNCHANGED << pc, hist >>

NextReady ==
    \/ CallPrepareScene
    \/ SceneRenderScene
    \/ ReadyFindTextureID
    \/ ReadyFindTextureSlot
    \/ ReadyFindMaterial
    \/ ReadyBindGLTextures
    \/ SettersSetTransformations
    \/ SettersSetShaderColor
    \/ SettersSetShaderTexture
    \/ SettersSetTextureUVScale
    \/ SettersSetShaderMaterial
    \/ SettersSetupSceneLights

SpecReady == InitScene /\ [][NextReady]_vars

----------------------------------------------------------------------------
(* LoadSceneTextures run again and again, one CreateGLTexture call at a time *)

\* runs of LoadSceneTextures
MaxLoadRuns == 3

\* a file decodes to three channels or is missing
ReloadImages == {NullImage, 3}

InitReload ==
    /\ Constructed(ShaderMgr)
    /\ ret = NoCall
    /\ pc = "reloading"

\* the seventh call of a run has returned and BindGLTextures is next
RunLoaded ==
    Len(hist) > 0 /\ Len(hist) % Len(SceneTextures) = 0 /\ ret.op = "CreateGLTexture"

\* LoadSceneTextures: the next CreateGLTexture call of the run
ReloadCreateGLTexture ==
    /\ pc = "reloading"
    /\ ~RunLoaded
    /\ Len(hist) < MaxLoadRuns * Len(SceneTextures)
    /\ LET t == SceneTextures[(Len(hist) % Len(SceneTextures)) + 1] IN
       \E image \in ReloadImages :
         /\ image \in {3, 4} \/ BadFiles < MaxBadFiles
         /\ \E self \in Selves : \E r \in {CreateGLTexture(self, t.tag, image)} :
            /\ Install(r.s)
            /\ After(r.s, pc)
            /\ Called("CreateGLTexture", t.tag, image, r.ret)
            /\ hist' = Append(hist, [tag |-> t.tag, image |-> image, ok |-> r.ret])

\* LoadSceneTextures: BindGLTextures() after the last load of the run
ReloadBindGLTextures ==
    /\ pc = "reloading"
    /\ RunLoaded
    /\ \E s \in {BindGLTextures(Self)} : Install(s)
    /\ Called("BindGLTextures", "", 0, 0)
    /\ UNCHANGED << pc, hist >>

NextReload ==
    \/ ReloadCreateGLTexture
    \/ ReloadBindGLTextures

SpecReload == InitReload /\ [][NextReload]_vars

----------------------------------------------------------------------------
(* Properties.  Readers of the history first.                                *)

RECURSIVE OkCount(_)
\* the number of successful loads among the first k attempts
OkCount(k) ==
    IF k = 0 THEN 0 ELSE OkCount(k - 1) + (IF hist[k].ok THEN 1 ELSE 0)

\* no two CreateGLTexture calls were given the same tag
DistinctTags ==
    \A j, k \in 1..Len(hist) : j # k => hist[j].tag # hist[k].tag

\* some successful CreateGLTexture call registered the tag
Registered(tag) == \E k \in 1..Len(hist) : hist[k].ok /\ hist[k].tag = tag

\* the registry is the successful attempts, in order, and nothing else
RegistryIsSuccessfulLoads ==
    /\ m_loadedTextures = OkCount(Len(hist))
    /\ \A k \in 1..Len(hist) :
         hist[k].ok => m_textureIDs[OkCount(k - 1)].tag = hist[k].tag

\* the step is a CreateGLTexture call (every call extends the history)
CreateGLTextureStep == hist' # hist

RegistryUnchanged ==
    /\ m_loadedTextures' = m_loadedTextures
    /\ m_textureIDs' = m_textureIDs

\* the registry gains exactly one entry, with the tag of the call
RegistryAppended ==
    /\ m_loadedTextures' = m_loadedTextures + 1
    /\ m_textureIDs'[m_loadedTextures].tag = ret'.tag
    /\ \A i \in 0..(m_loadedTextures - 1) : m_textureIDs'[i] = m_textureIDs[i]

----------------------------------------------------------------------------
\* C1: with pairwise distinct tags, FindTextureSlot of a successfully loaded
\* tag is the number of successful loads before it: the Nth successful load,
\* counting from 0, has slot N, and failed loads consume no slot.
C1_SlotIsLoadOrder ==
    DistinctTags =>
      \A k \in 1..Len(hist) :
        hist[k].ok => FindTextureSlot(Self, hist[k].tag) = OkCount(k - 1)

\* "a" loaded, "b" failed, "c" loaded, BindGLTextures ran (unit 1 holds the
\* second texture) and FindTextureSlot("c") returned 1
C1_Witness ==
    /\ Len(hist) = 3
    /\ hist[1].tag = "a" /\ hist[1].ok
    /\ hist[2].tag = "b" /\ ~hist[2].ok
    /\ hist[3].tag = "c" /\ hist[3].ok
    /\ gl.bound[1] = m_textureIDs[1].ID
    /\ ret.op = "FindTextureSlot" /\ ret.tag = "c" /\ ret.value = 1

----------------------------------------------------------------------------
\* C2: for a tag no successful CreateGLTexture call registered (a tag whose
\* load failed, any tag while nothing is loaded), FindTextureID and
\* FindTextureSlot both return -1, and a lookup call ends normally with the
\* object as it was.
C2_UnregisteredIsNotFound ==
    /\ \A tag \in Tags :
         ~Registered(tag) =>
           /\ FindTextureID(Self, tag) = NotFound
           /\ FindTextureSlot(Self, tag) = NotFound
    /\ (ret.op \in {"FindTextureID", "FindTextureSlot"} /\ ~Registered(ret.tag)) =>
         (ret.value = NotFound /\ pc # "crashed")

\* FindTextureID returned -1 for a tag whose load failed while another
\* texture is registered
C2_Witness ==
    /\ ret.op = "FindTextureID" /\ ret.value = NotFound
    /\ m_loadedTextures >= 1
    /\ \E k \in 1..Len(hist) : hist[k].tag = ret.tag /\ ~hist[k].ok
    /\ ~Registered(ret.tag)

----------------------------------------------------------------------------
\* C3: when the image cannot be decoded CreateGLTexture returns false and
\* leaves the registry (count, tags, handles) as it was; LoadSceneTextures
\* does not stop: it leaves the load phase only after attempting all seven
\* textures in order, and the registry holds every successful load in order.
C3_UndecodableStep ==
    (CreateGLTextureStep /\ ret'.arg = NullImage) =>
      (ret'.value = FALSE /\ RegistryUnchanged)

C3_AttemptsSoFar ==
    /\ Len(hist) <= Len(SceneTextures)
    /\ \A k \in 1..Len(hist) : hist[k].tag = SceneTextures[k].tag
    /\ RegistryIsSuccessfulLoads
    /\ \A k \in 1..Len(hist) : hist[k].image \in {3, 4} => hist[k].ok

C3_LoadPhaseComplete ==
    pc \notin {"constructed", "LoadSceneTextures"} =>
      Len(hist) = Len(SceneTextures)

\* C3: an undecodable image fails its own load only (returns false, registry
\* as it was) and LoadSceneTextures attempts all seven and registers the rest
C3_DecodeFailureIsNotFatal ==
    /\ [](C3_AttemptsSoFar /\ C3_LoadPhaseComplete)
    /\ [][C3_UndecodableStep]_vars

\* the first file could not be decoded, the load phase is over, and the last
\* texture is registered in the slot after the five between them
C3_Witness ==
    /\ pc = "ready"
    /\ hist[1].image = NullImage
    /\ \A k \in 2..Len(SceneTextures) : hist[k].ok
    /\ m_loadedTextures = Len(SceneTextures) - 1
    /\ FindTextureSlot(Self, "coffee") = Len(SceneTextures) - 2

----------------------------------------------------------------------------
\* C4: on a decodable image CreateGLTexture returns true and appends exactly
\* one entry with the given tag if and only if the image has 3 or 4 channels;
\* otherwise it returns false and leaves the registry unchanged, and the
\* registry is at all times what the successful loads alone would have made
\* it (count, tags and slots).
C4_DecodableStep ==
    (CreateGLTextureStep /\ ret'.arg # NullImage) =>
      IF ret'.arg \in {3, 4}
      THEN ret'.value = TRUE /\ RegistryAppended
      ELSE ret'.value = FALSE /\ RegistryUnchanged

\* C4: a decoded image is registered exactly when it has 3 or 4 channels, and
\* a rejected one leaves no trace in the registry
C4_ChannelCountDecides ==
    /\ [](/\ RegistryIsSuccessfulLoads
          /\ \A k \in 1..Len(hist) :
               hist[k].image # NullImage => (hist[k].ok <=> hist[k].image \in {3, 4}))
    /\ [][C4_DecodableStep]_vars

\* a 2-channel image was rejected, and the next load was registered in the
\* slot the rejected one would have taken
C4_Witness ==
    /\ Len(hist) = 3
    /\ hist[1].ok
    /\ hist[2].image = 2 /\ ~hist[2].ok
    /\ hist[3].ok /\ hist[3].tag # hist[1].tag
    /\ ret.op = "CreateGLTexture" /\ ret.value = TRUE
    /\ m_loadedTextures = 2
    /\ FindTextureSlot(Self, hist[3].tag) = 1

----------------------------------------------------------------------------
\* C5: while the material registry is empty, FindMaterial returns false for
\* every tag and leaves the caller's material unmodified.
C5_EmptyRegistryNotFound ==
    Len(m_objectMaterials) = 0 =>
      /\ \A tag \in MaterialTags, material \in CallerMaterials :
           /\ FindMaterial(Self, tag, material).ret = FALSE
           /\ FindMaterial(Self, tag, material).material = material
      /\ ret.op = "FindMaterial" =>
           (ret.value.ret = FALSE /\ ret.value.material = ret.arg)

\* FindMaterial("glass") was called on the empty registry with a material
\* holding values of the caller's
C5_Witness ==
    /\ Len(m_objectMaterials) = 0
    /\ ret.op = "FindMaterial" /\ ret.tag = "glass"
    /\ ret.arg.tag = "mine"
    /\ ret.value.ret = FALSE
    /\ ret.value.material.shininess = 7

----------------------------------------------------------------------------
\* C6: when the material registry is non-empty FindMaterial returns true for
\* every tag, and when no entry has the tag it leaves the caller's material
\* unmodified.
C6_MissReportsSuccess ==
    Len(m_objectMaterials) > 0 =>
      \A tag \in MaterialTags, material \in CallerMaterials :
        /\ FindMaterial(Self, tag, material).ret = TRUE
        /\ (\A i \in 1..Len(m_objectMaterials) : m_objectMaterials[i].tag # tag) =>
             FindMaterial(Self, tag, material).material = material

\* FindMaterial("plastic") returned true on a registry without "plastic" and
\* the caller's values are still in the material
C6_Witness ==
    /\ Len(m_objectMaterials) > 0
    /\ ret.op = "FindMaterial" /\ ret.tag = "plastic"
    /\ ret.arg.tag = "mine"
    /\ ret.value.ret = TRUE
    /\ ret.value.material = ret.arg

----------------------------------------------------------------------------
\* C7: registration makes no duplicate check (a load under a registered tag
\* is appended, DefineObjectMaterials appends its three entries again), and
\* lookups return the first match: FindTextureID and FindTextureSlot the
\* handle and index of the earliest-loaded texture with the tag, FindMaterial
\* the values of the earliest-appended entry with the tag, where its scan
\* stops.

\* the index of the earliest texture registered under the tag
FirstTexture(tag) ==
    CHOOSE i \in 0..(m_loadedTextures - 1) :
      /\ m_textureIDs[i].tag = tag
      /\ \A j \in 0..(i - 1) : m_textureIDs[j].tag # tag

\* the index of the earliest material appended under the tag
FirstMaterial(tag) ==
    CHOOSE i \in 1..Len(m_objectMaterials) :
      /\ m_objectMaterials[i].tag = tag
      /\ \A j \in 1..(i - 1) : m_objectMaterials[j].tag # tag

C7_FirstTextureWins ==
    \A tag \in Tags :
      (\E i \in 0..(m_loadedTextures - 1) : m_textureIDs[i].tag = tag) =>
        /\ FindTextureSlot(Self, tag) = FirstTexture(tag)
        /\ FindTextureID(Self, tag) = m_textureIDs[FirstTexture(tag)].ID

C7_FirstMaterialWins ==
    \A tag \in MaterialTags, material \in CallerMaterials :
      (\E i \in 1..Len(m_objectMaterials) : m_objectMaterials[i].tag = tag) =>
        LET r == FindMaterial(Self, tag, material)
            first == m_objectMaterials[FirstMaterial(tag)]
        IN  /\ r.index + 1 = FirstMaterial(tag)
            /\ r.material.diffuseColor = first.diffuseColor
            /\ r.material.specularColor = first.specularColor
            /\ r.material.shininess = first.shininess
            /\ r.material.tag = material.tag

C7_NoDuplicateCheckStep ==
    /\ (/\ CreateGLTextureStep
        /\ ret'.arg \in {3, 4}
        /\ \E i \in 0..(m_loadedTextures - 1) : m_textureIDs[i].tag = ret'.tag)
       => (ret'.value = TRUE /\ m_loadedTextures' = m_loadedTextures + 1)
    /\ (ret'.op = "DefineObjectMaterials" /\ m_objectMaterials' # m_objectMaterials)
       => Len(m_objectMaterials') = Len(m_objectMaterials) + 3

\* C7: no duplicate check on registration, first match wins on lookup, in
\* both registries
C7_FirstMatchWins ==
    /\ [](C7_FirstTextureWins /\ C7_FirstMaterialWins)
    /\ [][C7_NoDuplicateCheckStep]_vars

\* two textures are registered under one tag with different handles, and
\* FindTextureID returned the handle of the first
C7_Witness ==
    /\ m_loadedTextures >= 2
    /\ m_textureIDs[0].tag = m_textureIDs[1].tag
    /\ m_textureIDs[0].ID # m_textureIDs[1].ID
    /\ ret.op = "FindTextureID" /\ ret.tag = m_textureIDs[0].tag
    /\ ret.value = m_textureIDs[0].ID

----------------------------------------------------------------------------
\* C8: the matrix SetTransformations sets as "model" maps every point as
\* scale first, then rotation about X, then Y, then Z, then translation do
\* one after the other (it is Translate * RotateZ * RotateY * RotateX *
\* Scale); with unit scale, no rotation and position 0 it is the identity,
\* and with scale (2,1,1), 90 degrees about Y and position (1,0,0) it maps
\* (1,0,0) to (1,0,-2).

\* the transformations applied to a point << x, y, z >>, one at a time
ScalePoint(v, p) == << v[1] * p[1], v[2] * p[2], v[3] * p[3] >>
RotateXPoint(d, p) ==
    << p[1], Cos(d) * p[2] - Sin(d) * p[3], Sin(d) * p[2] + Cos(d) * p[3] >>
RotateYPoint(d, p) ==
    << Cos(d) * p[1] + Sin(d) * p[3], p[2], Cos(d) * p[3] - Sin(d) * p[1] >>
RotateZPoint(d, p) ==
    << Cos(d) * p[1] - Sin(d) * p[2], Sin(d) * p[1] + Cos(d) * p[2], p[3] >>
TranslatePoint(v, p) == << p[1] + v[1], p[2] + v[2], p[3] + v[3] >>

\* M * (x, y, z, 1)
Apply(M, p) ==
    << M[1][1] * p[1] + M[1][2] * p[2] + M[1][3] * p[3] + M[1][4],
       M[2][1] * p[1] + M[2][2] * p[2] + M[2][3] * p[3] + M[2][4],
       M[3][1] * p[1] + M[3][2] * p[2] + M[3][3] * p[3] + M[3][4],
       M[4][1] * p[1] + M[4][2] * p[2] + M[4][3] * p[3] + M[4][4] >>

\* the origin, the unit points of the axes and one point off them: an affine
\* map is determined by the first four
TestPoints ==
    { <<0, 0, 0>>, <<1, 0, 0>>, <<0, 1, 0>>, <<0, 0, 1>>, <<1, 2, 3>> }

IdentityMatrix ==
    << << 1, 0, 0, 0 >>, << 0, 1, 0, 0 >>, << 0, 0, 1, 0 >>, << 0, 0, 0, 1 >> >>

C8_ModelIsTRzRyRxS ==
    ret.op = "SetTransformations" =>
      LET scaleXYZ == ret.arg[1]
          Xdeg == ret.arg[2]
          Ydeg == ret.arg[3]
          Zdeg == ret.arg[4]
          positionXYZ == ret.arg[5]
      IN  /\ \A p \in TestPoints :
               LET q == TranslatePoint(positionXYZ,
                          RotateZPoint(Zdeg,
                            RotateYPoint(Ydeg,
                              RotateXPoint(Xdeg, ScalePoint(scaleXYZ, p)))))
               IN  Apply(shader.model, p) = << q[1], q[2], q[3], 1 >>
          /\ shader.model[4] = << 0, 0, 0, 1 >>
          /\ ret.arg = << <<1, 1, 1>>, 0, 0, 0, <<0, 0, 0>> >> =>
               shader.model = IdentityMatrix
          /\ ret.arg = << <<2, 1, 1>>, 0, 90, 0, <<1, 0, 0>> >> =>
               Apply(shader.model, <<1, 0, 0>>) = << 1, 0, -2, 1 >>

\* SetTransformations((2,1,1), 0, 90, 0, (1,0,0)) was called and the matrix
\* it set maps (1,0,0) to (1,0,-2)
C8_Witness ==
    /\ ret.op = "SetTransformations"
    /\ ret.arg = << <<2, 1, 1>>, 0, 90, 0, <<1, 0, 0>> >>
    /\ Apply(shader.model, <<1, 0, 0>>) = << 1, 0, -2, 1 >>

----------------------------------------------------------------------------
\* C9: BindGLTextures leaves unit i holding the handle of the i-th texture
\* for every i below the count and every other unit's binding as it was;
\* after it, the texture on unit FindTextureSlot(tag) is FindTextureID(tag)
\* for every registered tag, and FindTextureID(tag) is -1 exactly when
\* FindTextureSlot(tag) is -1.
C9_BindStep ==
    (ret'.op = "BindGLTextures") =>
      /\ \A i \in 0..(m_loadedTextures - 1) : gl'.bound[i] = m_textureIDs[i].ID
      /\ \A u \in m_loadedTextures..(NumTextureUnits - 1) : gl'.bound[u] = gl.bound[u]
      /\ RegistryUnchanged

C9_AfterBind ==
    /\ ret.op = "BindGLTextures" =>
         \A tag \in Tags :
           FindTextureSlot(Self, tag) # NotFound =>
             gl.bound[FindTextureSlot(Self, tag)] = FindTextureID(Self, tag)
    /\ \A tag \in Tags :
         FindTextureID(Self, tag) = NotFound <=> FindTextureSlot(Self, tag) = NotFound

\* C9: BindGLTextures puts the i-th texture on unit i and binds nothing
\* else; slot and handle lookups agree with the units
C9_UnitsFollowLoadOrder ==
    /\ []C9_AfterBind
    /\ [][C9_BindStep]_vars

\* three textures are loaded, BindGLTextures has just run, units 0..2 hold
\* three different handles and unit 3 holds none
C9_Witness ==
    /\ ret.op = "BindGLTextures"
    /\ m_loadedTextures = 3
    /\ \A i \in 0..2 : gl.bound[i] = m_textureIDs[i].ID /\ gl.bound[i] # 0
    /\ gl.bound[0] # gl.bound[1] /\ gl.bound[1] # gl.bound[2]
    /\ gl.bound[3] = 0

----------------------------------------------------------------------------
\* C10: with a shader manager, SetShaderColor sets bUseTexture false and
\* stores the colour, SetShaderTexture(tag) sets bUseTexture true and the
\* sampler to FindTextureSlot(tag), and no other call changes the flag: it is
\* true exactly when the most recent of the two was SetShaderTexture.  Every
\* draw of RenderScene sees the flag of the setter statement nearest before
\* it, so the mug bodies (SetShaderColor, then SetShaderTexture) are drawn
\* textured.

ShaderSetters == {"SetShaderColor", "SetShaderTexture"}

\* the position in RenderSceneCommands of the d-th draw
DrawCommand(d) ==
    CHOOSE i \in 1..Len(RenderSceneCommands) :
      /\ RenderSceneCommands[i].op = "Draw"
      /\ Cardinality({j \in 1..i : RenderSceneCommands[j].op = "Draw"}) = d

\* the setter statement nearest before statement i
LastSetterBefore(i) ==
    CHOOSE j \in 1..i :
      /\ RenderSceneCommands[j].op \in ShaderSetters
      /\ \A k \in (j + 1)..i : RenderSceneCommands[k].op \notin ShaderSetters

C10_AfterSetter ==
    m_pShaderManager # NULL =>
      /\ ret.op = "SetShaderColor" =>
           (shader.bUseTexture = FALSE /\ shader.objectColor = ret.arg)
      /\ ret.op = "SetShaderTexture" =>
           /\ shader.bUseTexture = TRUE
           /\ shader.objectTexture = FindTextureSlot(Self, ret.tag)

C10_Draws ==
    \A d \in 1..Len(drawLog) :
      LET c == RenderSceneCommands[LastSetterBefore(DrawCommand(d))]
      IN  /\ drawLog[d].shader.bUseTexture = (c.op = "SetShaderTexture")
          /\ c.op = "SetShaderTexture" =>
               drawLog[d].shader.objectTexture = FindTextureSlot(Self, c.a[1])
          /\ c.op = "SetShaderColor" =>
               drawLog[d].shader.objectColor = c.a[1]

C10_MugBodies ==
    Len(drawLog) >= MugInnerDraw =>
      /\ drawLog[MugOuterDraw].shader.bUseTexture = TRUE
      /\ drawLog[MugOuterDraw].shader.objectTexture = FindTextureSlot(Self, "smile")
      /\ drawLog[MugOuterDraw].shader.objectColor = << 0, 8, 0, 10 >>
      /\ drawLog[MugInnerDraw].shader.bUseTexture = TRUE
      /\ drawLog[MugInnerDraw].shader.objectTexture = FindTextureSlot(Self, "coffee")
      /\ drawLog[MugInnerDraw].shader.objectColor = << 0, 4, 0, 10 >>

C10_OtherCallsKeepFlag ==
    (ret'.op \notin (ShaderSetters \cup {"RenderScene"})) =>
      shader'.bUseTexture = shader.bUseTexture

\* C10: bUseTexture is true exactly when the most recent of SetShaderColor
\* and SetShaderTexture was SetShaderTexture; the mug bodies are drawn textured
C10_LastSetterDecides ==
    /\ [](C10_AfterSetter /\ C10_Draws /\ C10_MugBodies)
    /\ [][C10_OtherCallsKeepFlag]_vars

\* a frame was rendered with all seven textures loaded: the mug's outer body
\* was drawn with texturing on, the sampler at the slot of "smile", and the
\* colour SetShaderColor had stored just before
C10_Witness ==
    /\ ret.op = "RenderScene"
    /\ m_loadedTextures = Len(SceneTextures)
    /\ Len(drawLog) >= MugInnerDraw
    /\ drawLog[MugOuterDraw].shader.bUseTexture = TRUE
    /\ drawLog[MugOuterDraw].shader.objectTexture = 5
    /\ drawLog[MugOuterDraw].shader.objectColor = << 0, 8, 0, 10 >>

----------------------------------------------------------------------------
\* C11: every setter null-checks the shader manager: with a null shader
\* manager each of the six returns without dereferencing it and without
\* changing any state, whatever the registries hold.

SetterNames ==
    { "SetTransformations", "SetShaderColor", "SetShaderTexture",
      "SetTextureUVScale", "SetShaderMaterial", "SetupSceneLights" }

C11_NullSetterStep ==
    (m_pShaderManager = NULL /\ ret'.op \in SetterNames) =>
      /\ pc' # "crashed"
      /\ shader' = shader
      /\ gl' = gl
      /\ RegistryUnchanged
      /\ m_objectMaterials' = m_objectMaterials

\* C11 as claimed: a setter call with a null shader manager returns normally
\* and changes nothing
C11_SettersNullCheck == [][C11_NullSetterStep]_vars

----------------------------------------------------------------------------
\* C16: SetShaderMaterial forwards the three material uniforms whenever the
\* material registry is non-empty: those of the first entry with the tag, or,
\* when no entry has the tag, the fields of its unassigned local material,
\* which replace the uniforms set before.  With an empty registry it forwards
\* nothing.  (Forwarding dereferences the shader manager: a null one crashes.)

MaterialUniforms(material) ==
    [ diffuseColor  |-> material.diffuseColor,
      specularColor |-> material.specularColor,
      shininess     |-> material.shininess ]

C16_SetShaderMaterialStep ==
    (ret'.op = "SetShaderMaterial") =>
      IF Len(m_objectMaterials) = 0
      THEN shader' = shader /\ pc' # "crashed"
      ELSE IF m_pShaderManager = NULL
      THEN pc' = "crashed"
      ELSE /\ pc' # "crashed"
           /\ shader' = [shader EXCEPT !.material = shader'.material]
           /\ IF \E i \in 1..Len(m_objectMaterials) :
                   m_objectMaterials[i].tag = ret'.tag
              THEN shader'.material =
                     MaterialUniforms(m_objectMaterials[FirstMaterial(ret'.tag)])
              ELSE shader'.material = MaterialUniforms(ret'.arg)

\* C16: SetShaderMaterial forwards on a miss too, the unassigned local's fields
C16_ForwardsOnMiss == [][C16_SetShaderMaterialStep]_vars

\* SetShaderMaterial("plastic") was called on the three defined materials and
\* the material uniforms now hold what the local material held
C16_Witness ==
    /\ m_pShaderManager # NULL
    /\ Len(m_objectMaterials) = 3
    /\ ret.op = "SetShaderMaterial" /\ ret.tag = "plastic"
    /\ ret.arg.tag = "mine"
    /\ shader.material = [ diffuseColor |-> <<1, 2, 3>>,
                           specularColor |-> <<4, 5, 6>>, shininess |-> 7 ]

----------------------------------------------------------------------------
\* C12: once PrepareScene has completed, no FindTextureID, FindTextureSlot,
\* FindMaterial, setter, BindGLTextures or RenderScene call changes the
\* texture registry's count, tags or handles or the material list's length
\* or entries.
C12_RegistriesStep ==
    (pc = "ready") =>
      /\ RegistryUnchanged
      /\ m_objectMaterials' = m_objectMaterials

C12_RegistriesImmutable == [][C12_RegistriesStep]_vars

\* all seven textures and three materials are registered, frames were
\* rendered (the floor draw shows a later frame) and SetShaderMaterial has
\* just been called
C12_Witness ==
    /\ pc = "ready"
    /\ m_loadedTextures = Len(SceneTextures)
    /\ Len(m_objectMaterials) = 3
    /\ Len(drawLog) > 0
    /\ drawLog[1].shader.UVscale = << 1, 1 >>
    /\ ret.op = "SetShaderMaterial"

----------------------------------------------------------------------------
\* C13 as claimed: with 16 textures registered a further successful decode
\* returns true, writes entry 16 and raises the count to 17.
C13_SeventeenthStep ==
    (CreateGLTextureStep /\ m_loadedTextures = TextureArraySize /\ ret'.arg \in {3, 4}) =>
      /\ pc' # "crashed"
      /\ ret'.value = TRUE
      /\ m_loadedTextures' = TextureArraySize + 1
      /\ m_textureIDs'[TextureArraySize].tag = ret'.tag

C13_NoMaximumStep ==
    (CreateGLTextureStep /\ ret'.arg \in {3, 4}) =>
      \/ ret'.value = TRUE /\ RegistryAppended /\ pc' # "crashed"
      \/ /\ m_loadedTextures >= TextureArraySize
         /\ pc' = "crashed"
         /\ RegistryUnchanged

C13_TwoRunsFit ==
    Len(hist) <= 2 * Len(SceneTextures) =>
      (m_loadedTextures <= TextureArraySize /\ pc # "crashed")

----------------------------------------------------------------------------
\* the tags of the CreateGLTexture attempts made so far, in order
AttemptedTags == [k \in 1..Len(hist) |-> hist[k].tag]

SceneTagOrder == [k \in 1..Len(SceneTextures) |-> SceneTextures[k].tag]

\* what each call of the program follows
C14_OrderStep ==
    /\ ret'.op = "PrepareScene" => ret = NoCall
    /\ ret'.op = "CreateGLTexture" =>
         /\ ret.op \in {"PrepareScene", "CreateGLTexture"}
         /\ Len(hist) < Len(SceneTextures)
         /\ ret'.tag = SceneTagOrder[Len(hist) + 1]
    /\ ret'.op = "BindGLTextures" =>
         /\ ret.op = "CreateGLTexture"
         /\ AttemptedTags = SceneTagOrder
         /\ hist' = hist
    /\ ret'.op = "DefineObjectMaterials" => ret.op = "BindGLTextures"
    /\ ret'.op = "SetupSceneLights" => ret.op = "DefineObjectMaterials"
    /\ ret'.op = "LoadMeshes" => ret.op = "SetupSceneLights"
    /\ ret'.op = "RenderScene" =>
         /\ ret.op \in {"LoadMeshes", "RenderScene"}
         /\ hist' = hist
         /\ gl.nextName' = gl.nextName
         /\ gl.bound' = gl.bound
         /\ gl.activeTexture' = gl.activeTexture
    /\ hist' # hist => ret'.op = "CreateGLTexture"

\* every draw comes after all seven attempts
C14_LoadsPrecedeDraws == drawLog # << >> => AttemptedTags = SceneTagOrder

\* C14: in PrepareScene the seven CreateGLTexture attempts come first and in
\* the order floor, tbottle, bottle, tlabel, hdrive, smile, coffee; then
\* BindGLTextures is called, once, whether or not a load failed; then the
\* materials are defined, then the lights are set, then the meshes are
\* loaded; no texture is loaded after the bind, RenderScene loads and binds
\* nothing, and every load precedes every draw.
C14_PrepareSceneOrder ==
    /\ []C14_LoadsPrecedeDraws
    /\ [][C14_OrderStep]_vars

\* a frame has been drawn in a scene two of whose files failed to load
C14_Witness ==
    /\ ret.op = "RenderScene"
    /\ drawLog # << >>
    /\ BadFiles = 2
    /\ AttemptedTags = SceneTagOrder

----------------------------------------------------------------------------
\* the tags a lookup is tried with: those of the scene and one never loaded
LookupTags == SceneTags \cup {"none"}

\* the step is a call of DestroyGLTextures
DestroyGLTexturesStep == ret'.op = "DestroyGLTextures"

\* nothing is released and the registry keeps its shape
C15_ReleasesNothing ==
    /\ gl'.deleted = gl.deleted
    /\ gl'.textures = gl.textures
    /\ gl'.bound = gl.bound
    /\ m_loadedTextures' = m_loadedTextures
    /\ \A i \in 0..(m_loadedTextures - 1) : m_textureIDs'[i].tag = m_textureIDs[i].tag
    /\ \A tag \in LookupTags : FindTextureSlot(Self, tag)' = FindTextureSlot(Self, tag)

\* every handle is replaced by a name generated in the call, and no lookup
\* of a registered tag gives the texture bound on the tag's unit any more
C15_OverwritesHandles ==
    /\ \A i \in 0..(m_loadedTextures - 1) :
         /\ m_textureIDs'[i].ID >= gl.nextName
         /\ m_textureIDs'[i].ID < gl'.nextName
         /\ m_textureIDs'[i].ID \notin DOMAIN gl'.textures
    /\ \A tag \in LookupTags :
         FindTextureSlot(Self, tag) # NotFound =>
           FindTextureID(Self, tag)' # gl'.bound[FindTextureSlot(Self, tag)']

----------------------------------------------------------------------------
\* the uniforms the claim lists
SceneUniforms(sh) ==
    << sh.model, sh.bUseTexture, sh.objectTexture, sh.objectColor, sh.UVscale,
       sh.material >>

\* the first frame: the floor, drawn first, sees the material and the UV
\* scale as construction left them
C17_FirstFrameStep ==
    (ret.op = "LoadMeshes" /\ ret'.op = "RenderScene") =>
      /\ drawLog'[1].mesh = "Plane"
      /\ drawLog'[1].shader.material = InitUniforms.material
      /\ drawLog'[1].shader.UVscale = InitUniforms.UVscale
      /\ \A d \in 2..Len(drawLog') :
           drawLog'[d].shader.material # InitUniforms.material

\* once a frame has been drawn: the next frame leaves the uniforms as they
\* are, its floor is drawn with the "metal" material and UV scale (1,1), and
\* the frame after it repeats each of its draws
C17_LaterFrames ==
    (pc = "ready" /\ ret.op = "RenderScene") =>
      \A local \in CallerMaterials :
        LET second == RenderScene(Self, local)
            third  == RenderScene(second, local)
        IN  /\ ~second.crashed /\ ~third.crashed
            /\ SceneUniforms(second.shader) = SceneUniforms(shader)
            /\ second.shader = shader
            /\ third.shader = shader
            /\ second.drawLog[1].mesh = "Plane"
            /\ second.drawLog[1].shader.material = MaterialUniforms(metalMaterial)
            /\ second.drawLog[1].shader.UVscale = << 1, 1 >>
            /\ third.drawLog = second.drawLog

\* every draw of a frame sees the uniforms the setters before it left, and
\* the frame's last draw leaves them in the shader
C17_Sticky ==
    (pc = "ready" /\ ret.op = "RenderScene") =>
      /\ Len(drawLog) = Cardinality({k \in 1..Len(RenderSceneCommands) :
                                       RenderSceneCommands[k].op = "Draw"})
      /\ drawLog[Len(drawLog)].shader = shader

\* C17: the uniforms are sticky across draws and frames and RenderScene is
\* idempotent on them: after one frame, any further frame leaves the uniform
\* state as it is, and from the second frame on every draw sees what the same
\* draw of the frame before saw.  The first frame's floor draw sees no
\* material and no UV scale; in later frames the floor is drawn with the
\* "metal" material and UV scale (1,1) left by the frame before.
C17_FramesAreIdempotent ==
    /\ [](C17_LaterFrames /\ C17_Sticky)
    /\ [][C17_FirstFrameStep]_vars

\* a second frame has been drawn: its floor draw saw the "metal" material
\* and UV scale (1,1)
C17_Witness ==
    /\ pc = "ready" /\ ret.op = "RenderScene"
    /\ drawLog[1].mesh = "Plane"
    /\ drawLog[1].shader.material = MaterialUniforms(metalMaterial)
    /\ drawLog[1].shader.UVscale = << 1, 1 >>
    /\ shader.material = MaterialUniforms(metalMaterial)

----------------------------------------------------------------------------
\* the texture object of the last registry entry
LastLoadedTexture == m_textureIDs[m_loadedTextures - 1].ID

\* the texture has the wrap parameters RenderScene sets before the record
ClampedToEdge(g, id) ==
    /\ g.textures[id].wrapS = "GL_CLAMP_TO_EDGE"
    /\ g.textures[id].wrapT = "GL_CLAMP_TO_EDGE"

\* the texture has the wrap parameters CreateGLTexture gave it
Repeating(g, id) ==
    /\ g.textures[id].wrapS = "GL_REPEAT"
    /\ g.textures[id].wrapT = "GL_REPEAT"

\* the step is a frame drawn with at least one texture registered
TexturedFrameStep == ret'.op = "RenderScene" /\ m_loadedTextures > 0

\* C18 as claimed: the clamp-to-edge parameters go to the last loaded texture
\* and not to the "hdrive" texture.
C18_ClampStep ==
    TexturedFrameStep =>
      /\ ClampedToEdge(gl', LastLoadedTexture)
      /\ FindTextureID(Self, "hdrive") # NotFound =>
           Repeating(gl', FindTextureID(Self, "hdrive"))

C18_ClampMissesHdrive == [][C18_ClampStep]_vars

\* SetShaderTexture leaves OpenGL's texture state alone
C18_SetShaderTextureStep ==
    ret'.op = "SetShaderTexture" => gl' = gl

\* a frame changes neither the active unit nor a binding; the active unit is
\* the one BindGLTextures left, that of the last loaded texture (unit 0 with
\* no texture loaded); the texture bound there, and no other, gets
\* clamp-to-edge
C18_FrameStep ==
    ret'.op = "RenderScene" =>
      /\ gl'.activeTexture = gl.activeTexture
      /\ gl'.bound = gl.bound
      /\ gl.activeTexture = IF m_loadedTextures = 0 THEN 0 ELSE m_loadedTextures - 1
      /\ m_loadedTextures > 0 => gl.bound[gl.activeTexture] = LastLoadedTexture
      /\ ClampedToEdge(gl', gl.bound[gl.activeTexture])
      /\ \A id \in DOMAIN gl.textures :
           id # gl.bound[gl.activeTexture] => gl'.textures[id] = gl.textures[id]
      /\ FindTextureID(Self, "hdrive") # NotFound =>
           (ClampedToEdge(gl', FindTextureID(Self, "hdrive"))
              <=> FindTextureSlot(Self, "hdrive") = m_loadedTextures - 1)
      /\ (m_loadedTextures > 0 /\ FindTextureSlot(Self, "hdrive") = m_loadedTextures - 1)
           <=> (Registered("hdrive") /\ ~Registered("smile") /\ ~Registered("coffee"))

\* C18 amended: SetShaderTexture never changes the active texture unit or a
\* texture binding, so the active unit during RenderScene is the one left by
\* BindGLTextures, the unit of the last loaded texture (unit 0 when none is
\* loaded).  The clamp-to-edge parameters set before the record is drawn go
\* to the last loaded texture ("coffee" when all seven loads succeed), and to
\* the "hdrive" texture only when "hdrive" is itself the last loaded one,
\* that is when "smile" and "coffee" both failed to load.
C18_ClampGoesToLastLoaded ==
    [][C18_SetShaderTextureStep /\ C18_FrameStep]_vars

\* all seven textures are loaded and a frame has been drawn: "coffee", on the
\* active unit 6, is clamped and "hdrive" still repeats; the last call was
\* SetShaderTexture
C18_Witness ==
    /\ pc = "ready"
    /\ m_loadedTextures = Len(SceneTextures)
    /\ Len(drawLog) > 0
    /\ gl.activeTexture = 6
    /\ ClampedToEdge(gl, FindTextureID(Self, "coffee"))
    /\ Repeating(gl, FindTextureID(Self, "hdrive"))
    /\ ret.op = "SetShaderTexture"

====
